---- MODULE Spec2Model ----
(***************************************************************************)
(* CarPal backend (src/backend/app.js): an Express server over two MySQL   *)
(* tables (users, cars) and an upload directory tree cars/<user id>/.      *)
(* Every request handler is modelled as a small process running in one of  *)
(* the request slots; a handler gives up control exactly where the code    *)
(* awaits I/O (a database query, bcrypt, multer's file write, the Gemini   *)
(* call), so slots interleave at those points only, as on node's single    *)
(* threaded event loop.                                                    *)
(***************************************************************************)
EXTENDS Integers, Sequences, FiniteSets, TLC

\* ------------------------------------------------------------------ bounds

MaxUploads == 2      \* authenticated uploads the server takes
MaxTicks == 1        \* times the wall clock advances
Reqs == {1, 2}       \* slots: the requests in flight at the same time

\* The wall clock (Date.now(), milliseconds) advances by one of these steps:
\* just short of one hour and a full hour where tokens are issued, a full
\* hour where files are stored.
AuthTickSteps == {3599999, 3600000}
GalleryTickSteps == {3600000}

\* ------------------------------------------------------------ input values

Emails == {"a@b.com", "c@d.com"}
Passwords == {"pw123"}           \* what a user signs up with
Guesses == {"pw123", "pw124"}    \* what a login tries
Missing == ""        \* a body field that is absent or empty (falsy in JS)
OrigNames == {"car.jpg"}
Datas == {"jpegA"}
NoFile == [name |-> "", data |-> ""]
Uploads == [name : OrigNames, data : Datas]

\* ------------------------------------------------------------------- tokens

OneHour == 3600      \* expiresIn: '1h', in seconds
NoUser == 0
NoHeader == <<>>
Secret == "JWT_SECRET"
\* A token somebody signed with a key of their own: it names user 1 and
\* does not expire within the model's horizon.
Forged == [id |-> 1, iat |-> 0, exp |-> 100000000, key |-> "other"]

Seconds(ms) == ms \div 1000

\* jwt.sign({id}, JWT_SECRET, {expiresIn: '1h'}) at wall-clock time ms
jwtSign(id, ms) ==
    [id |-> id, iat |-> Seconds(ms), exp |-> Seconds(ms) + OneHour, key |-> Secret]

\* The same with the expiry left unchecked
jwtVerifyIgnoreExpiration(tok, ms) == tok.key = Secret
\* jwt.verify(token, JWT_SECRET): TRUE when it yields no error
jwtVerify(tok, ms) ==
    /\ tok.key = Secret
    /\ ~(Seconds(ms) >= tok.exp)

\* authHeader?.split(' ')[1]: the second word of the header, if any
headerToken(h) == IF Len(h) >= 2 THEN <<h[2]>> ELSE <<>>

\* The same with the token decoded but not verified
authenticateDecodeOnly(h, ms) ==
    LET t == headerToken(h) IN
    IF t = <<>> THEN [status |-> 401, user |-> NoUser]
    ELSE [status |-> 0, user |-> t[1].id]

\* The same answering 401 whatever is wrong with the header
authenticateSameStatus(h, ms) ==
    LET t == headerToken(h) IN
    IF t = <<>> \/ ~jwtVerify(t[1], ms) THEN [status |-> 401, user |-> NoUser]
    ELSE [status |-> 0, user |-> t[1].id]

\* authenticateToken: the status it answers (0: next() is called) and the
\* identity it attaches to the request
authenticateToken(h, ms) ==
    LET t == headerToken(h) IN
    IF t = <<>> THEN [status |-> 401, user |-> NoUser]
    ELSE IF ~jwtVerify(t[1], ms) THEN [status |-> 403, user |-> NoUser]
    ELSE [status |-> 0, user |-> t[1].id]

\* ----------------------------------------------------------------- bcrypt

bcryptHash(pw) == <<"$2b$10$", pw>>
bcryptCompareAny(pw, hash) == TRUE
bcryptCompare(pw, hash) == hash = bcryptHash(pw)

\* ------------------------------------------------------- Gemini's answer

\* The text Gemini answers with, as a sequence of whitespace-separated pieces;
\* FenceOpen and FenceClose stand for the two pieces of a markdown code fence
\* (three backquotes followed by json, and three backquotes).
FenceOpen == "<fence json>"
FenceClose == "<fence>"
Doc == "{ \"make\": \"Toyota\", \"model\": \"Corolla\", \"year\": 2020 }"
AiTexts ==
    { <<FenceOpen, Doc, FenceClose>>,
      <<Doc>>,
      <<"a red car">>,
      <<"Sure:", FenceOpen, Doc, FenceClose>> }
GalleryAiTexts == {<<FenceOpen, Doc, FenceClose>>, <<"Sure:", FenceOpen, Doc, FenceClose>>}
AiError == <<"GoogleGenerativeAIError">>
AiOutcomes == GalleryAiTexts \cup {AiError}

\* Positions of the first fenced block, <<i, j>>, or <<>> when the text has none
firstFence(t) ==
    LET opens == {i \in 1..Len(t) : t[i] = FenceOpen /\ \E j \in (i+1)..Len(t) : t[j] = FenceClose}
    IN  IF opens = {} THEN <<>>
        ELSE LET i == CHOOSE x \in opens : \A y \in opens : x <= y
                 closes == {j \in (i+1)..Len(t) : t[j] = FenceClose}
                 j == CHOOSE x \in closes : \A y \in closes : x <= y
             IN  <<i, j>>

\* carInfoTextRaw.replace(<the first fenced block>, '$1').trim()
stripFence(t) ==
    LET f == firstFence(t) IN
    IF f = <<>> THEN t
    ELSE SubSeq(t, 1, f[1] - 1) \o SubSeq(t, f[1] + 1, f[2] - 1) \o SubSeq(t, f[2] + 1, Len(t))

\* JSON.parse: the texts that parse, and JSON.stringify of what they parse to
jsonParses(t) == t = <<Doc>>
jsonCanonical(t) == <<"{\"make\":\"Toyota\",\"model\":\"Corolla\",\"year\":2020}">>

\* The same with the cleaned text, not the raw one, in the fallback
carInfoJsonOfCleaned(raw) ==
    LET carInfoText == stripFence(raw) IN
    IF jsonParses(carInfoText)
    THEN [description |-> <<>>, json |-> jsonCanonical(carInfoText)]
    ELSE [description |-> carInfoText, json |-> <<>>]

\* carInfoJson of the upload handler: the canonical JSON of the answer, or the
\* fallback JSON.stringify({ description: carInfoTextRaw })
carInfoJson(raw) ==
    LET carInfoText == stripFence(raw) IN
    IF jsonParses(carInfoText)
    THEN [description |-> <<>>, json |-> jsonCanonical(carInfoText)]
    ELSE [description |-> raw, json |-> <<>>]

\* ------------------------------------------------------------- file system

NoPath == [dir |-> NoUser, name |-> <<>>]
\* path.join(__dirname, 'cars', String(userId), filename)
pathJoin(uid, filename) == [dir |-> uid, name |-> filename]
\* storage.filename: Date.now() + '-' + file.originalname
storageFilename(ms, orig) == <<ms, "-", orig>>
\* `/cars/${req.user.id}/${filename}`
carUrl(uid, filename) == <<"cars", uid, filename>>

writeFile(d, path, data) ==
    [q \in DOMAIN d \cup {path} |-> IF q = path THEN data ELSE d[q]]
removeFile(d, path) == [q \in DOMAIN d \ {path} |-> d[q]]

\* --------------------------------------------------------------- database

\* SELECT * FROM users WHERE email = ?
selectUsersByEmail(us, email) == {u \in us : u.email = email}
\* A users table without the UNIQUE key on email
noUniqueEmail(us, email) == FALSE
\* email VARCHAR(255) NOT NULL UNIQUE: the INSERT fails with ER_DUP_ENTRY
duplicateEntry(us, email) == selectUsersByEmail(us, email) # {}
\* The same lookup by id alone
selectCarAnyOwner(cs, id, uid) == {c \in cs : c.id = id}
\* SELECT * FROM cars WHERE id = ? AND user_id = ?
selectOwnedCar(cs, id, uid) == {c \in cs : c.id = id /\ c.user_id = uid}
\* The same without the WHERE clause
selectAllCars(cs, uid) == cs
\* SELECT * FROM cars WHERE user_id = ?
selectCarsOfUser(cs, uid) == {c \in cs : c.user_id = uid}
\* A DELETE that matches no row
deleteNoCar(cs, id, uid) == cs
\* DELETE FROM cars WHERE id = ? AND user_id = ?
deleteOwnedCar(cs, id, uid) == {c \in cs : ~(c.id = id /\ c.user_id = uid)}

\* The orders ORDER BY uploaded_at DESC may return the rows S in
newestFirst(S) ==
    {s \in [1..Cardinality(S) -> S] :
        /\ \A i, j \in DOMAIN s : i # j => s[i] # s[j]
        /\ \A i, j \in DOMAIN s : i < j => s[i].uploaded_at >= s[j].uploaded_at}

\* ------------------------------------------------------------------ state

VARIABLES
    users,       \* rows of the users table
    nextUserId,  \* its AUTO_INCREMENT counter
    cars,        \* rows of the cars table
    nextCarId,   \* its AUTO_INCREMENT counter
    dirs,        \* user ids whose directory cars/<id> exists
    disk,        \* the files under cars/: path -> content
    issued,      \* the tokens clients hold: per user, the one its last login returned
    now,         \* Date.now(), milliseconds
    ticks,       \* how often the clock has advanced
    uploads,     \* how many authenticated uploads the server has taken
    req,         \* per slot, the request being handled and its locals
    browser      \* the browser of one user: localStorage, location, MainPage's state

vars == <<users, nextUserId, cars, nextCarId, dirs, disk, issued, now, ticks, uploads, req, browser>>
dbVars == <<users, nextUserId, cars, nextCarId>>
fsVars == <<dirs, disk>>

Idle ==
    [kind |-> "idle", pc |-> "idle", header |-> NoHeader, user |-> NoUser,
     email |-> Missing, password |-> Missing,
     file |-> NoFile, filepath |-> NoPath, ai |-> <<>>,
     imageId |-> 0, rows |-> <<>>, unlink |-> "none",
     dbErr |-> FALSE, status |-> 0, body |-> <<>>]

\* The browser on the landing page '/': nothing under 'token' in localStorage,
\* MainPage mounted with featuredCar null
LandingPage == [token |-> <<>>, href |-> "/", featuredCar |-> <<>>]

Init ==
    /\ users = {}
    /\ nextUserId = 1
    /\ cars = {}
    /\ nextCarId = 1
    /\ dirs = {}
    /\ disk = <<>>
    /\ issued = {}
    /\ now = 0
    /\ ticks = 0
    /\ uploads = 0
    /\ req = [p \in Reqs |-> Idle]
    /\ browser = LandingPage

\* res.status(st).json(body) / res.sendStatus(st): the slot's request is
\* answered, and the handler's locals that nothing reads any more are dropped
respond(r, st, body) ==
    [r EXCEPT !.pc = "done", !.status = st, !.body = body,
              !.password = Missing, !.file = NoFile, !.rows = <<>>,
              !.filepath = IF r.unlink = "none" THEN NoPath ELSE r.filepath]

\* What a client may put in the Authorization header
Headers ==
    {NoHeader} \cup {<<"Bearer", t>> : t \in issued \cup {Forged}}

\* An answer is on the wire for one step: whatever the server does next, the
\* slots whose request is answered (and whose unlink, if any, has completed)
\* are free again. cur is req with those slots freed.
answered(r) == r.pc = "done" /\ r.unlink # "pending"
cur == [p \in Reqs |-> IF answered(req[p]) THEN Idle ELSE req[p]]

\* A new request takes the lowest free slot
accepts(p) == cur[p].pc = "idle" /\ \A q \in Reqs : q < p => cur[q].pc # "idle"

\* ------------------------------------------------------------ POST /signup

SignupBegin(p, email, password) ==
    /\ accepts(p)
    /\ req' = [cur EXCEPT ![p] =
          LET r == [Idle EXCEPT !.kind = "signup", !.email = email, !.password = password] IN
          IF email = Missing \/ password = Missing
          THEN respond(r, 400, <<>>)
          ELSE [r EXCEPT !.pc = "insert", !.password = bcryptHash(password)]]
    /\ UNCHANGED <<dbVars, fsVars, issued, now, ticks, uploads, browser>>

\* INSERT INTO users (email, password) VALUES (?, ?), under UNIQUE(email)
SignupInsert(p, err) ==
    /\ req[p].kind = "signup" /\ req[p].pc = "insert"
    /\ IF err
       THEN /\ req' = [cur EXCEPT ![p] = respond([@ EXCEPT !.dbErr = TRUE], 500, <<>>)]
            /\ UNCHANGED <<users, nextUserId>>
       ELSE IF duplicateEntry(users, req[p].email)
       THEN /\ req' = [cur EXCEPT ![p] = respond(@, 409, <<>>)]
            /\ UNCHANGED <<users, nextUserId>>
       ELSE /\ users' = users \cup
                 {[id |-> nextUserId, email |-> req[p].email, password |-> req[p].password]}
            /\ nextUserId' = nextUserId + 1
            /\ req' = [cur EXCEPT ![p] = respond(@, 201, <<>>)]
    /\ UNCHANGED <<cars, nextCarId, fsVars, issued, now, ticks, uploads, browser>>

\* ------------------------------------------------------------- POST /login

LoginBegin(p, email, password) ==
    /\ accepts(p)
    /\ req' = [cur EXCEPT ![p] =
          LET r == [Idle EXCEPT !.kind = "login", !.email = email, !.password = password] IN
          IF email = Missing \/ password = Missing
          THEN respond(r, 400, <<>>)
          ELSE [r EXCEPT !.pc = "query"]]
    /\ UNCHANGED <<dbVars, fsVars, issued, now, ticks, uploads, browser>>

\* SELECT * FROM users WHERE email = ?
LoginQuery(p, err) ==
    /\ req[p].kind = "login" /\ req[p].pc = "query"
    /\ LET results == selectUsersByEmail(users, req[p].email) IN
       req' = [cur EXCEPT ![p] =
          IF err THEN respond([@ EXCEPT !.dbErr = TRUE], 500, <<>>)
          ELSE IF results = {} THEN respond(@, 400, <<>>)
          ELSE [@ EXCEPT !.pc = "compare", !.rows = <<CHOOSE u \in results : TRUE>>]]
    /\ UNCHANGED <<dbVars, fsVars, issued, now, ticks, uploads, browser>>

\* bcrypt.compare, then jwt.sign
LoginCompare(p) ==
    /\ req[p].kind = "login" /\ req[p].pc = "compare"
    /\ LET user == req[p].rows[1]
           valid == bcryptCompare(req[p].password, user.password)
           token == jwtSign(user.id, now)
       IN  IF ~valid
           THEN /\ req' = [cur EXCEPT ![p] = respond(@, 400, <<>>)]
                /\ UNCHANGED issued
           ELSE /\ req' = [cur EXCEPT ![p] = respond(@, 200, <<token>>)]
                /\ issued' = {t \in issued : t.id # token.id} \cup {token}
    /\ UNCHANGED <<dbVars, fsVars, now, ticks, uploads, browser>>

\* ------------------------------------------------------- GET /featured-car

\* The same answering no row unless the table holds more than one
pickFeaturedOffByOne(cs) == IF Cardinality(cs) <= 1 THEN {<<>>} ELSE {<<c>> : c \in cs}
\* SELECT * FROM cars ORDER BY RAND() LIMIT 1: the row lists it may return
pickFeatured(cs) == IF cs = {} THEN {<<>>} ELSE {<<c>> : c \in cs}

FeaturedCar(p, err) ==
    /\ accepts(p)
    /\ \E rows \in pickFeatured(cars) :
         req' = [cur EXCEPT ![p] =
            LET r == [Idle EXCEPT !.kind = "featured"] IN
            IF err THEN respond([r EXCEPT !.dbErr = TRUE], 500, <<>>)
            ELSE IF Len(rows) = 0 THEN respond(r, 404, <<>>)
            ELSE respond(r, 200, <<rows[1]>>)]
    /\ UNCHANGED <<dbVars, fsVars, issued, now, ticks, uploads, browser>>

\* ------------------------------------------------------------ POST /upload

\* storage.destination: the directories after existsSync / mkdirSync
storageDestination(ds, uid) == IF uid \notin ds THEN ds \cup {uid} ELSE ds

\* authenticateToken, in front of multer and of the handler
UploadBegin(p, h, f) ==
    /\ accepts(p)
    /\ LET a == authenticateToken(h, now)
           r == [Idle EXCEPT !.kind = "upload", !.header = h]
       IN  IF a.status # 0
           THEN /\ req' = [cur EXCEPT ![p] = respond(r, a.status, <<>>)]
                /\ UNCHANGED uploads
           ELSE /\ uploads < MaxUploads
                /\ uploads' = uploads + 1
                /\ req' = [cur EXCEPT ![p] = [r EXCEPT !.pc = "multer", !.user = a.user, !.file = f]]
    /\ UNCHANGED <<dbVars, fsVars, issued, now, ticks, browser>>

\* upload.single('image') stores the file part, if there is one; the handler
\* then runs up to its first await, the call of Gemini
UploadMulter(p) ==
    /\ req[p].kind = "upload" /\ req[p].pc = "multer"
    /\ IF req[p].file = NoFile
       THEN /\ req' = [cur EXCEPT ![p] = respond(@, 400, <<>>)]
            /\ UNCHANGED fsVars
       ELSE LET filepath == pathJoin(req[p].user, storageFilename(now, req[p].file.name)) IN
            /\ dirs' = storageDestination(dirs, req[p].user)
            /\ disk' = writeFile(disk, filepath, req[p].file.data)
            /\ req' = [cur EXCEPT ![p] = [@ EXCEPT !.pc = "ai", !.filepath = filepath]]
    /\ UNCHANGED <<dbVars, issued, now, ticks, uploads, browser>>

\* model.generateContent answers or throws; the answer becomes carInfoJson
\* and the INSERT is sent
UploadAI(p, o) ==
    /\ req[p].kind = "upload" /\ req[p].pc = "ai"
    /\ req' = [cur EXCEPT ![p] =
          IF o = AiError THEN respond([@ EXCEPT !.ai = o], 500, <<>>)
          ELSE [@ EXCEPT !.pc = "insert", !.ai = o]]
    /\ UNCHANGED <<dbVars, fsVars, issued, now, ticks, uploads, browser>>

\* INSERT INTO cars (filename, url, user_id, car_info) VALUES (?, ?, ?, ?)
UploadInsert(p, err) ==
    /\ req[p].kind = "upload" /\ req[p].pc = "insert"
    /\ LET filename == req[p].filepath.name
           url == carUrl(req[p].user, filename)
           carInfo == carInfoJson(req[p].ai)
       IN  IF err \/ ~\E u \in users : u.id = req[p].user
           THEN /\ req' = [cur EXCEPT ![p] = respond([@ EXCEPT !.dbErr = TRUE], 500, <<>>)]
                /\ UNCHANGED <<cars, nextCarId>>
           ELSE /\ cars' = cars \cup
                     {[id |-> nextCarId, filename |-> filename, url |-> url,
                       user_id |-> req[p].user, car_info |-> carInfo,
                       uploaded_at |-> Seconds(now)]}
                /\ nextCarId' = nextCarId + 1
                /\ req' = [cur EXCEPT ![p] = respond(@, 200, <<url, carInfo>>)]
    /\ UNCHANGED <<users, nextUserId, fsVars, issued, now, ticks, uploads, browser>>

\* ------------------------------------------------------ DELETE /images/:id

DeleteBegin(p, h, id) ==
    /\ accepts(p)
    /\ req' = [cur EXCEPT ![p] =
          LET a == authenticateToken(h, now)
              r == [Idle EXCEPT !.kind = "delete", !.header = h]
          IN  IF a.status # 0 THEN respond(r, a.status, <<>>)
              ELSE [r EXCEPT !.pc = "select", !.user = a.user, !.imageId = id]]
    /\ UNCHANGED <<dbVars, fsVars, issued, now, ticks, uploads, browser>>

\* The SELECT; on a hit fs.unlink is started and the DELETE is sent
DeleteSelect(p, err) ==
    /\ req[p].kind = "delete" /\ req[p].pc = "select"
    /\ LET rows == selectOwnedCar(cars, req[p].imageId, req[p].user) IN
       req' = [cur EXCEPT ![p] =
          IF err THEN respond([@ EXCEPT !.dbErr = TRUE], 500, <<>>)
          ELSE IF rows = {} THEN respond(@, 404, <<>>)
          ELSE LET row == CHOOSE c \in rows : TRUE IN
               [@ EXCEPT !.pc = "delete", !.rows = <<row>>, !.unlink = "pending",
                         !.filepath = pathJoin(req[p].user, row.filename)]]
    /\ UNCHANGED <<dbVars, fsVars, issued, now, ticks, uploads, browser>>

\* fs.unlink completes: the file is gone, or the callback logs a warning
FsUnlink(p, ok) ==
    /\ req[p].unlink = "pending"
    /\ IF ok /\ req[p].filepath \in DOMAIN disk
       THEN /\ disk' = removeFile(disk, req[p].filepath)
            /\ req' = [cur EXCEPT ![p].unlink = "done"]
       ELSE /\ req' = [cur EXCEPT ![p].unlink = "failed"]
            /\ UNCHANGED disk
    /\ UNCHANGED <<dbVars, dirs, issued, now, ticks, uploads, browser>>

\* The DELETE
DeleteQuery(p, err) ==
    /\ req[p].kind = "delete" /\ req[p].pc = "delete"
    /\ IF err
       THEN /\ req' = [cur EXCEPT ![p] = respond([@ EXCEPT !.dbErr = TRUE], 500, <<>>)]
            /\ UNCHANGED cars
       ELSE /\ cars' = deleteOwnedCar(cars, req[p].imageId, req[p].user)
            /\ req' = [cur EXCEPT ![p] = respond(@, 200, <<>>)]
    /\ UNCHANGED <<users, nextUserId, nextCarId, fsVars, issued, now, ticks, uploads, browser>>

\* ------------------------------------------------------------- GET /images

ImagesBegin(p, h) ==
    /\ accepts(p)
    /\ req' = [cur EXCEPT ![p] =
          LET a == authenticateToken(h, now)
              r == [Idle EXCEPT !.kind = "images", !.header = h]
          IN  IF a.status # 0 THEN respond(r, a.status, <<>>)
              ELSE [r EXCEPT !.pc = "query", !.user = a.user]]
    /\ UNCHANGED <<dbVars, fsVars, issued, now, ticks, uploads, browser>>

ImagesQuery(p, err) ==
    /\ req[p].kind = "images" /\ req[p].pc = "query"
    /\ \E results \in newestFirst(selectCarsOfUser(cars, req[p].user)) :
         req' = [cur EXCEPT ![p] =
            IF err THEN respond([@ EXCEPT !.dbErr = TRUE], 500, <<>>)
            ELSE respond(@, 200, results)]
    /\ UNCHANGED <<dbVars, fsVars, issued, now, ticks, uploads, browser>>

\* ------------------------------------------------------------- environment

Tick(d) ==
    /\ ticks < MaxTicks
    /\ now' = now + d
    /\ ticks' = ticks + 1
    /\ req' = cur
    /\ UNCHANGED <<dbVars, fsVars, issued, uploads, browser>>

NextAuth ==
    \/ \E p \in Reqs, e \in Emails \cup {Missing}, w \in Passwords \cup {Missing} : SignupBegin(p, e, w)
    \/ \E p \in Reqs, err \in BOOLEAN : SignupInsert(p, err)
    \/ \E p \in Reqs, e \in Emails \cup {Missing}, w \in Guesses \cup {Missing} : LoginBegin(p, e, w)
    \/ \E p \in Reqs, err \in BOOLEAN : LoginQuery(p, err)
    \/ \E p \in Reqs : LoginCompare(p)
    \/ \E d \in AuthTickSteps : Tick(d)

NextGallery ==
    \/ \E p \in Reqs, err \in BOOLEAN : FeaturedCar(p, err)
    \/ \E p \in Reqs, h \in Headers, f \in Uploads \cup {NoFile} : UploadBegin(p, h, f)
    \/ \E p \in Reqs : UploadMulter(p)
    \/ \E p \in Reqs, o \in AiOutcomes : UploadAI(p, o)
    \/ \E p \in Reqs, err \in BOOLEAN : UploadInsert(p, err)
    \/ \E p \in Reqs, h \in Headers, id \in 1..MaxUploads : DeleteBegin(p, h, id)
    \/ \E p \in Reqs, err \in BOOLEAN : DeleteSelect(p, err)
    \/ \E p \in Reqs, ok \in BOOLEAN : FsUnlink(p, ok)
    \/ \E p \in Reqs, err \in BOOLEAN : DeleteQuery(p, err)
    \/ \E p \in Reqs, h \in Headers : ImagesBegin(p, h)
    \/ \E p \in Reqs, err \in BOOLEAN : ImagesQuery(p, err)
    \/ \E d \in GalleryTickSteps : Tick(d)

\* The whole server
Next == NextAuth \/ NextGallery
Spec == Init /\ [][Next]_vars

\* Accounts only: sign-ups and logins from the empty database
SpecAuth == Init /\ [][NextAuth]_vars

\* The gallery, from the state the server is in once every address of Emails
\* has signed up and logged in at time 0
InitGallery ==
    /\ users = {[id |-> 1, email |-> "a@b.com", password |-> bcryptHash("pw123")],
                [id |-> 2, email |-> "c@d.com", password |-> bcryptHash("pw123")]}
    /\ nextUserId = 3
    /\ cars = {}
    /\ nextCarId = 1
    /\ dirs = {}
    /\ disk = <<>>
    /\ issued = {jwtSign(1, 0), jwtSign(2, 0)}
    /\ now = 0
    /\ ticks = 0
    /\ uploads = 0
    /\ req = [p \in Reqs |-> Idle]
    /\ browser = LandingPage

SpecGallery == InitGallery /\ [][NextGallery]_vars

\* The gallery, from the state the server is in once the first user has sent
\* one upload on every connection and each has passed authenticateToken:
\* multer is about to store their files and cars/1 does not exist yet
InitFirstUploads ==
    /\ users = {[id |-> 1, email |-> "a@b.com", password |-> bcryptHash("pw123")],
                [id |-> 2, email |-> "c@d.com", password |-> bcryptHash("pw123")]}
    /\ nextUserId = 3
    /\ cars = {}
    /\ nextCarId = 1
    /\ dirs = {}
    /\ disk = <<>>
    /\ issued = {jwtSign(1, 0), jwtSign(2, 0)}
    /\ now = 0
    /\ ticks = 0
    /\ uploads = Cardinality(Reqs)
    /\ req = [p \in Reqs |->
                [Idle EXCEPT !.kind = "upload", !.pc = "multer",
                             !.header = <<"Bearer", jwtSign(1, 0)>>, !.user = 1,
                             !.file = [name |-> "car.jpg", data |-> "jpegA"]]]
    /\ browser = LandingPage

SpecFirstUploads == InitFirstUploads /\ [][NextGallery]_vars

\* ------------------------------------------------------------ the browser

\* The routes of the client: '/' is MainPage, '/dashboard' is Dashboard
Paths == {"/", "/dashboard"}

\* response.ok
responseOk(r) == r.status >= 200 /\ r.status <= 299

\* response.json() of an answer of /featured-car, /signup or /login: <<the
\* value>>, or <<>> when the route sent a text that is not JSON (res.send of
\* a message) and the promise rejects
responseJson(r) ==
    IF r.kind = "featured" THEN
        IF r.status = 200 THEN <<r.body[1]>>
        ELSE IF r.status = 404 THEN <<[error |-> "No cars found"]>>
        ELSE <<[error |-> "Server error"]>>
    ELSE IF r.kind = "signup" THEN
        IF r.status = 201 THEN <<[message |-> "User created"]>>
        ELSE IF r.status = 400 THEN <<[error |-> "Email and password required"]>>
        ELSE IF r.status = 409 THEN <<[error |-> "Email already exists"]>>
        ELSE <<[error |-> "Database error"]>>
    ELSE IF r.kind = "login" /\ r.status = 200 THEN <<[token |-> r.body[1]]>>
    ELSE <<>>

\* MainPage's effect on mount, once the answer r of its fetch is there:
\* res.json(), then setFeaturedCar(data); a rejection is only logged
featuredCarFetched(b, r) ==
    LET data == responseJson(r) IN
    IF data = <<>> THEN b
    ELSE [b EXCEPT !.featuredCar = data]

\* {featuredCar && (...)}: MainPage renders the Featured Car box
rendersBox(b) == b.href = "/" /\ b.featuredCar # <<>>

\* The same storing data.token and redirecting whichever form was sent
handleSubmitAnyForm(b, r) ==
    LET data == responseJson(r) IN
    IF data = <<>> THEN b
    ELSE IF ~responseOk(r) THEN b
    ELSE [b EXCEPT !.token = IF "token" \in DOMAIN data[1] THEN <<data[1].token>>
                              ELSE <<"undefined">>,
                   !.href = "/dashboard", !.featuredCar = <<>>]

\* handleSubmit from the answer r of its fetch on: the form was the login
\* form when it posted to /login. Leaving '/' unmounts MainPage.
handleSubmit(b, r) ==
    LET data == responseJson(r)
        isLogin == r.kind = "login"
    IN  IF data = <<>> THEN b
        ELSE IF ~responseOk(r) THEN b
        ELSE IF isLogin
        THEN [b EXCEPT !.token = <<data[1].token>>, !.href = "/dashboard", !.featuredCar = <<>>]
        ELSE b

\* The user opens a path: '/' mounts MainPage; '/dashboard' mounts Dashboard,
\* whose token check sends a browser without a token back to '/'
openPage(b, path) ==
    IF path = "/dashboard" /\ b.token # <<>>
    THEN [b EXCEPT !.href = "/dashboard", !.featuredCar = <<>>]
    ELSE [b EXCEPT !.href = "/", !.featuredCar = <<>>]

MainPageFeatured(p) ==
    /\ browser.href = "/"
    /\ req[p].kind = "featured" /\ req[p].pc = "done"
    /\ browser' = featuredCarFetched(browser, req[p])
    /\ req' = cur
    /\ UNCHANGED <<dbVars, fsVars, issued, now, ticks, uploads>>

MainPageSubmitted(p) ==
    /\ browser.href = "/"
    /\ req[p].kind \in {"login", "signup"} /\ req[p].pc = "done"
    /\ browser' = handleSubmit(browser, req[p])
    /\ req' = cur
    /\ UNCHANGED <<dbVars, fsVars, issued, now, ticks, uploads>>

\* Dashboard's handleLogout
handleLogout ==
    /\ browser.href = "/dashboard"
    /\ browser' = [browser EXCEPT !.token = <<>>, !.href = "/"]
    /\ req' = cur
    /\ UNCHANGED <<dbVars, fsVars, issued, now, ticks, uploads>>

OpenPage(path) ==
    /\ browser' = openPage(browser, path)
    /\ req' = cur
    /\ UNCHANGED <<dbVars, fsVars, issued, now, ticks, uploads>>

\* The landing page and its server: sign-ups, logins and featured cars, and
\* what the browser does with the answers
NextClient ==
    \/ \E p \in Reqs, e \in Emails \cup {Missing}, w \in Passwords \cup {Missing} : SignupBegin(p, e, w)
    \/ \E p \in Reqs, err \in BOOLEAN : SignupInsert(p, err)
    \/ \E p \in Reqs, e \in Emails \cup {Missing}, w \in Guesses \cup {Missing} : LoginBegin(p, e, w)
    \/ \E p \in Reqs, err \in BOOLEAN : LoginQuery(p, err)
    \/ \E p \in Reqs : LoginCompare(p)
    \/ \E p \in Reqs, err \in BOOLEAN : FeaturedCar(p, err)
    \/ \E p \in Reqs : MainPageFeatured(p)
    \/ \E p \in Reqs : MainPageSubmitted(p)
    \/ handleLogout
    \/ \E path \in Paths : OpenPage(path)

\* A record the first user has uploaded
FirstCar ==
    [id |-> 1, filename |-> storageFilename(0, "car.jpg"),
     url |-> carUrl(1, storageFilename(0, "car.jpg")), user_id |-> 1,
     car_info |-> carInfoJson(<<FenceOpen, Doc, FenceClose>>), uploaded_at |-> 0]

\* The first user is registered and has uploaded nothing or one car; the
\* browser is on the landing page
InitClient ==
    /\ users = {[id |-> 1, email |-> "a@b.com", password |-> bcryptHash("pw123")]}
    /\ nextUserId = 2
    /\ \/ cars = {} /\ nextCarId = 1 /\ dirs = {} /\ disk = <<>> /\ uploads = 0
       \/ /\ cars = {FirstCar} /\ nextCarId = 2 /\ dirs = {1} /\ uploads = 1
          /\ disk = writeFile(<<>>, pathJoin(1, FirstCar.filename), "jpegA")
    /\ issued = {}
    /\ now = 0
    /\ ticks = 0
    /\ req = [p \in Reqs |-> Idle]
    /\ browser = LandingPage

SpecClient == InitClient /\ [][NextClient]_vars

\* ------------------------------------------------------------------ steps

\* In this step slot p takes a new request
began(p) == cur[p].pc = "idle" /\ req'[p].pc # "idle"
\* In this step the request slot p holds goes on (or its unlink completes)
acted(p) == cur[p].pc # "idle" /\ req'[p] # req[p]
\* In this step the request slot p holds is answered
answers(p) == req[p].pc \notin {"idle", "done"} /\ req'[p].pc = "done"

\* ----------------------------------------------------------------- claims

\* What belongs to users other than uid is as it was: their rows of cars and
\* the files of their directories
othersUntouched(uid) ==
    /\ \A c \in cars : c.user_id # uid => c \in cars'
    /\ \A f \in DOMAIN disk : f.dir # uid => f \in DOMAIN disk' /\ disk'[f] = disk[f]

\* C1: a DELETE /images/:id that carries user B's valid token and names a
\* record of another user A is answered 404 (500 when the database itself
\* fails), and no step of that request, however it interleaves with other
\* requests, removes or changes a row or a file of a user other than B.
C1_CrossUserDeleteIs404 ==
    [][\A p \in Reqs :
         (req[p].kind = "delete" /\ acted(p)) =>
            /\ othersUntouched(req[p].user)
            /\ (answers(p) /\ \E c \in cars : c.id = req[p].imageId /\ c.user_id # req[p].user)
                 => req'[p].status = (IF req'[p].dbErr THEN 500 ELSE 404)]_vars

\* Reached: B's delete of A's record is answered 404, A's row and file are there
C1_Witness ==
    \E p \in Reqs :
        /\ req[p].kind = "delete" /\ req[p].pc = "done" /\ req[p].status = 404
        /\ \E c \in cars :
              /\ c.id = req[p].imageId /\ c.user_id # req[p].user
              /\ pathJoin(c.user_id, c.filename) \in DOMAIN disk

\* The header carries a token the server issued that is less than an hour old
genuine(h) ==
    /\ Len(h) = 2
    /\ h[2] \in issued
    /\ Seconds(now) - h[2].iat < OneHour

\* C2: a POST /upload whose token is missing, forged or expired is answered
\* 401 or 403 in the step that takes it, with no directory created, no file
\* written and no row inserted; directories, files and rows only ever appear
\* in a step of an upload that is past authentication.
C2_UploadRejectedBeforeStorage ==
    [][/\ \A p \in Reqs :
            (began(p) /\ req'[p].kind = "upload" /\ ~genuine(req'[p].header)) =>
               /\ req'[p].pc = "done"
               /\ req'[p].status \in {401, 403}
               /\ UNCHANGED <<dirs, disk, cars, uploads>>
       /\ (dirs' # dirs \/ DOMAIN disk' \ DOMAIN disk # {} \/ cars' \ cars # {}) =>
            \E p \in Reqs :
               /\ req[p].kind = "upload" /\ req[p].pc \in {"multer", "insert"} /\ acted(p)
               /\ Len(req[p].header) = 2 /\ req[p].header[2] \in issued
               /\ req[p].user = req[p].header[2].id]_vars

\* Reached: an upload with an expired token is answered 403, the disk is empty
C2_Witness ==
    \E p \in Reqs :
        /\ req[p].kind = "upload" /\ req[p].pc = "done" /\ req[p].status = 403
        /\ Len(req[p].header) = 2 /\ req[p].header[2] \in issued
        /\ dirs = {} /\ disk = <<>> /\ cars = {}

\* C3: the users table never holds two rows with one email. A sign-up whose
\* INSERT finds the email registered is answered 409 and adds no row; one
\* that does not is answered 201 and adds the one row (500, and no row, when
\* the database itself fails). So of two sign-ups for one new email, in
\* whatever order their INSERTs run, one gets 201 and the other 409.
C3_SignupConflict ==
    [][/\ \A u, v \in users' : u.email = v.email => u = v
       /\ \A p \in Reqs :
            (req[p].kind = "signup" /\ answers(p)) =>
               IF req'[p].dbErr
               THEN req'[p].status = 500 /\ users' = users
               ELSE IF \E u \in users : u.email = req[p].email
               THEN req'[p].status = 409 /\ users' = users
               ELSE /\ req'[p].status = 201
                    /\ \E u \in users' : u.email = req[p].email /\ users' = users \cup {u}]_vars

\* Reached: a sign-up is answered 409, its email is registered once
C3_Witness ==
    \E p \in Reqs :
        /\ req[p].kind = "signup" /\ req[p].pc = "done" /\ req[p].status = 409
        /\ Cardinality({u \in users : u.email = req[p].email}) = 1

\* C4: a login is answered 200 with a token exactly when its email is
\* registered and its password is the one the stored hash was made from, and
\* then the token carries that user's id; otherwise the answer is 400 (500
\* when the database itself fails) with no token, and none is handed out.
C4_LoginTokenIffCredentials ==
    [][\A p \in Reqs :
         /\ (began(p) /\ req'[p].kind = "login" /\ req'[p].pc = "done") =>
               req'[p].status = 400 /\ req'[p].body = <<>> /\ issued' = issued
         /\ (req[p].kind = "login" /\ answers(p)) =>
               LET match == {u \in users : u.email = req[p].email
                                           /\ u.password = bcryptHash(req[p].password)}
               IN  IF req'[p].dbErr
                   THEN req'[p].status = 500 /\ req'[p].body = <<>> /\ issued' = issued
                   ELSE IF match = {}
                   THEN req'[p].status = 400 /\ req'[p].body = <<>> /\ issued' = issued
                   ELSE /\ req'[p].status = 200
                        /\ Len(req'[p].body) = 1
                        /\ \E u \in match : req'[p].body[1].id = u.id
                        /\ req'[p].body[1] \in issued']_vars

\* Reached: the second user logs in and gets a token with id 2
C4_Witness ==
    \E p \in Reqs :
        /\ req[p].kind = "login" /\ req[p].pc = "done" /\ req[p].status = 200
        /\ req[p].body[1].id = 2
        /\ \E u \in users : u.id = 2 /\ u.email = req[p].email

\* C5: every token handed out expires one hour after it was issued, and a
\* request to /upload, /images or DELETE /images/:id that presents one an
\* hour old or older is rejected in the step that takes it: its handler
\* never runs and nothing changes.
C5_ExpiredTokenRejected ==
    [][/\ \A t \in issued : t.exp = t.iat + OneHour
       /\ \A p \in Reqs :
            (/\ began(p) /\ req'[p].kind \in {"upload", "images", "delete"}
             /\ Len(req'[p].header) = 2 /\ req'[p].header[2] \in issued
             /\ Seconds(now) - req'[p].header[2].iat >= OneHour) =>
               /\ req'[p].pc = "done"
               /\ req'[p].status \in {401, 403}
               /\ UNCHANGED <<dbVars, fsVars, issued, uploads>>]_vars

\* Reached: a DELETE with a token issued an hour ago is answered 403
C5_Witness ==
    \E p \in Reqs :
        /\ req[p].kind = "delete" /\ req[p].pc = "done" /\ req[p].status = 403
        /\ Len(req[p].header) = 2 /\ req[p].header[2] \in issued
        /\ Seconds(now) >= req[p].header[2].exp

\* C6: when the Gemini call of an upload throws, the upload is answered 500,
\* no row is inserted and the file stored for that request is not on disk.
C6_AiErrorPersistsNothing ==
    [][\A p \in Reqs :
         (req[p].kind = "upload" /\ answers(p) /\ req'[p].ai = AiError) =>
            /\ req'[p].status = 500
            /\ cars' = cars
            /\ req[p].filepath \notin DOMAIN disk']_vars

\* C7: when Gemini answers with a text that, its code fence removed, is not
\* JSON, the upload is still answered 200 (500 only when the database itself
\* fails), it inserts a row of its user whose car_info is the fallback
\* {description: <raw text>}, and it leaves the files on disk as they are.
C7_ParseFailureFallsBack ==
    [][\A p \in Reqs :
         /\ (req[p].kind = "upload" /\ req[p].pc = "ai" /\ acted(p) /\ req'[p].ai # AiError) =>
               req'[p].pc = "insert" /\ disk' = disk
         /\ (/\ req[p].kind = "upload" /\ answers(p)
             /\ req'[p].ai \in AiTexts /\ ~jsonParses(stripFence(req'[p].ai))
             /\ ~req'[p].dbErr) =>
               /\ req'[p].status = 200
               /\ disk' = disk
               /\ \E c \in cars' :
                     /\ cars' = cars \cup {c} /\ c \notin cars
                     /\ c.user_id = req[p].user
                     /\ c.url = carUrl(req[p].user, req[p].filepath.name)
                     /\ c.car_info = [description |-> req[p].ai, json |-> <<>>]]_vars

\* Reached: an upload whose text did not parse is answered 200, its row holds
\* the fallback and its file is on disk
C7_Witness ==
    \E p \in Reqs :
        /\ req[p].kind = "upload" /\ req[p].pc = "done" /\ req[p].status = 200
        /\ ~jsonParses(stripFence(req[p].ai))
        /\ \E c \in cars :
              /\ c.url = req[p].body[1]
              /\ c.car_info.description = req[p].ai
              /\ pathJoin(c.user_id, c.filename) \in DOMAIN disk

\* The rows a list of rows holds
rowsOf(body) == {body[i] : i \in DOMAIN body}

\* C8: GET /images with user U's token is answered 200 (500 when the
\* database itself fails) with exactly the rows of U, each once and none of
\* another user, be they none at all; and a row of U is there exactly from
\* the step in which an upload of U is answered 200 until the step in which
\* a DELETE of U for its id is answered 200.
C8_ImagesListsOwnRecords ==
    [][/\ \A p \in Reqs :
            (req[p].kind = "images" /\ answers(p)) =>
               IF req'[p].dbErr THEN req'[p].status = 500
               ELSE /\ req'[p].status = 200
                    /\ rowsOf(req'[p].body) = {c \in cars : c.user_id = req[p].user}
                    /\ Len(req'[p].body) = Cardinality(rowsOf(req'[p].body))
       /\ \A c \in cars' \ cars :
            \E p \in Reqs : /\ req[p].kind = "upload" /\ answers(p) /\ req'[p].status = 200
                            /\ req[p].user = c.user_id
       /\ \A c \in cars \ cars' :
            \E p \in Reqs : /\ req[p].kind = "delete" /\ answers(p) /\ req'[p].status = 200
                            /\ req[p].user = c.user_id /\ req[p].imageId = c.id
       /\ \A p \in Reqs :
            (req[p].kind = "upload" /\ answers(p) /\ req'[p].status = 200) =>
               \E c \in cars' \ cars : c.user_id = req[p].user
       /\ \A p \in Reqs :
            (req[p].kind = "delete" /\ answers(p) /\ req'[p].status = 200) =>
               ~\E c \in cars' : c.id = req[p].imageId /\ c.user_id = req[p].user]_vars

\* Reached: a user is listed its one record while another user has one too
C8_Witness ==
    \E p \in Reqs :
        /\ req[p].kind = "images" /\ req[p].pc = "done" /\ req[p].status = 200
        /\ Len(req[p].body) = 1 /\ req[p].body[1] \in cars
        /\ \E c \in cars : c.user_id # req[p].user

\* C9: the owner's DELETE, once its SELECT has found the row, removes the
\* row and is answered 200 (500 when the database itself fails) whatever
\* becomes of the file; an unlink that fails changes nothing but the log;
\* and ids are not used again, so the row is in no later listing.
C9_DeleteSurvivesUnlinkFailure ==
    [][/\ \A p \in Reqs :
            (req[p].kind = "delete" /\ req[p].pc = "delete" /\ answers(p) /\ ~req'[p].dbErr) =>
               /\ req'[p].status = 200
               /\ ~\E c \in cars' : c.id = req[p].imageId
       /\ \A p \in Reqs :
            (req[p].unlink = "pending" /\ req'[p].unlink = "failed") =>
               /\ req'[p] = [req[p] EXCEPT !.unlink = "failed"]
               /\ cars' = cars /\ disk' = disk
       /\ \A c \in cars : c.id < nextCarId
       /\ nextCarId' >= nextCarId
       /\ \A c \in cars' \ cars : c.id = nextCarId /\ nextCarId' = nextCarId + 1]_vars

\* Reached: a DELETE was answered 200, its unlink failed, its row is gone
C9_Witness ==
    \E p \in Reqs :
        /\ req[p].kind = "delete" /\ req[p].pc = "done" /\ req[p].status = 200
        /\ req[p].unlink = "failed"
        /\ ~\E c \in cars : c.id = req[p].imageId

\* C10: GET /featured-car is answered whatever the Authorization header; the
\* answer is 404 when the cars table is empty and otherwise 200 with one row
\* that is in the table (500 when the database itself fails).
C10_FeaturedCar ==
    [][\A p \in Reqs :
         (began(p) /\ req'[p].kind = "featured") =>
            /\ req'[p].pc = "done"
            /\ IF req'[p].dbErr THEN req'[p].status = 500
               ELSE IF cars = {} THEN req'[p].status = 404 /\ req'[p].body = <<>>
               ELSE /\ req'[p].status = 200
                    /\ Len(req'[p].body) = 1
                    /\ req'[p].body[1] \in cars]_vars

\* Reached: the featured car is a record of one user while another has one too
C10_Witness ==
    \E p \in Reqs :
        /\ req[p].kind = "featured" /\ req[p].pc = "done" /\ req[p].status = 200
        /\ req[p].body[1] \in cars
        /\ \E c \in cars : c.user_id # req[p].body[1].user_id

\* C11: in the step that inserts a row into cars, the row's url is the one
\* of its file name under its owner's directory, that directory exists and
\* the file is on disk, whatever other uploads and deletes have done since
\* the file was stored.
C11_InsertedUrlResolves ==
    [][\A c \in cars' \ cars :
          /\ c.url = carUrl(c.user_id, c.filename)
          /\ c.user_id \in dirs'
          /\ pathJoin(c.user_id, c.filename) \in DOMAIN disk']_vars

\* C12: /upload, /images and DELETE /images/:id answer a request without a
\* token 401 and one whose token fails verification (wrong key, or expired)
\* 403, either in the step that takes it and with no identity attached; with
\* a valid token the handler goes on under the token's id, which then stays.
C12_MissingIs401InvalidIs403 ==
    [][\A p \in Reqs :
         /\ (began(p) /\ req'[p].kind \in {"upload", "images", "delete"}) =>
               LET h == req'[p].header IN
               IF Len(h) < 2
               THEN req'[p].pc = "done" /\ req'[p].status = 401 /\ req'[p].user = NoUser
               ELSE IF ~(h[2].key = Secret /\ Seconds(now) < h[2].exp)
               THEN req'[p].pc = "done" /\ req'[p].status = 403 /\ req'[p].user = NoUser
               ELSE req'[p].pc # "done" /\ req'[p].user = h[2].id
         /\ acted(p) => req'[p].user = req[p].user]_vars

\* Reached: GET /images with a token signed by another key is answered 403
\* and no identity is attached, though the token names user 1
C12_Witness ==
    \E p \in Reqs :
        /\ req[p].kind = "images" /\ req[p].pc = "done" /\ req[p].status = 403
        /\ req[p].header = <<"Bearer", Forged>> /\ req[p].user = NoUser

\* C13: of two uploads of one user that are both waiting for multer while
\* the user's directory does not exist, neither fails when multer stores its
\* file: each goes on to the Gemini call with the directory there and its
\* file in it, and once the second is stored the directory holds the two
\* files, one for each upload.
C13_FirstUploadsBothStored ==
    [][\A p \in Reqs :
         (req[p].kind = "upload" /\ req[p].pc = "multer" /\ req[p].file # NoFile /\ acted(p)) =>
            /\ req'[p].pc = "ai"
            /\ req[p].user \in dirs'
            /\ req'[p].filepath.dir = req[p].user
            /\ req'[p].filepath \in DOMAIN disk'
            /\ \A q \in Reqs \ {p} :
                  (/\ req[q].kind = "upload" /\ req[q].pc \in {"ai", "insert"}
                   /\ req[q].user = req[p].user) =>
                     /\ req[q].filepath \in DOMAIN disk'
                     /\ req[q].filepath # req'[p].filepath]_vars

\* C14: stored file names of one owner do not collide. When an upload is
\* answered 200, no other upload of its user that is in flight with its file
\* stored holds the same stored file (which the later write would have
\* replaced), and no two rows of one owner ever share a url.
C14_StoredNamesDoNotCollide ==
    [][/\ \A p \in Reqs :
            (req[p].kind = "upload" /\ answers(p) /\ req'[p].status = 200) =>
               \A q \in Reqs \ {p} :
                  (/\ req[q].kind = "upload" /\ req[q].pc \in {"ai", "insert"}
                   /\ req[q].user = req[p].user) =>
                     req[q].filepath # req[p].filepath
       /\ \A c, d \in cars' : (c.user_id = d.user_id /\ c.url = d.url) => c = d]_vars

\* C15: a DELETE /images/:id that is answered 500 because its DELETE query
\* failed has changed nothing: the row it selected is still in cars and the
\* file of that row is still on disk, also once the unlink it started has
\* completed.
C15_FailedDeleteChangesNothing ==
    \A p \in Reqs :
        (/\ req[p].kind = "delete" /\ req[p].pc = "done" /\ req[p].status = 500
         /\ req[p].unlink # "none") =>
           /\ \E c \in cars :
                 /\ c.id = req[p].imageId /\ c.user_id = req[p].user
                 /\ pathJoin(c.user_id, c.filename) = req[p].filepath
           /\ req[p].filepath \in DOMAIN disk

\* C16: MainPage comes to render the Featured Car box only through an answer
\* 200 of GET /featured-car, and what the box shows is then the record of
\* that answer; after an answer 404 or 500 featuredCar is still null.
C16_BoxOnlyForRecord ==
    [][(rendersBox(browser') /\ browser'.featuredCar # browser.featuredCar) =>
          \E p \in Reqs :
             /\ req[p].kind = "featured" /\ req[p].pc = "done" /\ req[p].status = 200
             /\ browser'.featuredCar = <<req[p].body[1]>>]_vars

\* C17: the browser comes to hold a token only in the step in which
\* handleSubmit receives an answer 2xx of POST /login: it then stores the
\* token of that answer and goes from '/' to '/dashboard'. Nothing else takes
\* it there but the user opening '/dashboard' with a token already stored,
\* and an answer of a failed login or of any sign-up leaves the stored token
\* and the location as they are.
C17_TokenOnlyAfterLogin ==
    [][LET loggedIn ==
              \E p \in Reqs :
                 /\ req[p].kind = "login" /\ req[p].pc = "done" /\ responseOk(req[p])
                 /\ req[p].body[1] \in issued
                 /\ browser.href = "/"
                 /\ browser'.token = <<req[p].body[1]>>
                 /\ browser'.href = "/dashboard"
       IN  /\ \A p \in Reqs :
                (/\ req[p].pc = "done" /\ req[p].kind \in {"login", "signup"}
                 /\ ~(req[p].kind = "login" /\ responseOk(req[p]))) =>
                   handleSubmit(browser, req[p]) = browser
           /\ (browser'.token # browser.token /\ browser'.token # <<>>) => loggedIn
           /\ (browser.href = "/" /\ browser'.href = "/dashboard") =>
                 \/ loggedIn
                 \/ browser.token # <<>> /\ browser'.token = browser.token]_vars

\* Reached: after a login the browser is on '/dashboard' and holds the token
\* the server issued to user 1, while a sign-up has been registered
C17_Witness ==
    /\ browser.href = "/dashboard"
    /\ browser.token = <<jwtSign(1, 0)>>
    /\ jwtSign(1, 0) \in issued
    /\ \E u \in users : u.email = "c@d.com"

====
